---- MODULE Spec2Model ----
(***************************************************************************)
(* Model of T286816-edit-data-gathering.ipynb: one templated SQL query     *)
(* over wmf.mediawiki_history, left-joined against the experiment's user   *)
(* table, run once on Spark and written to a tab-separated file.           *)
(*                                                                         *)
(* SQL values are nullable: NULL is the empty tuple and a value v is <<v>>.*)
(* Predicates are evaluated in SQL's three-valued logic.  A timestamp      *)
(* string "YYYY-MM-DD HH:MM:SS.S" is the pair <<day, second of day>> (day  *)
(* counted from 1970-01-01) and a date string "YYYY-MM-DD" is <<day>>;     *)
(* tuples are ordered as the zero-padded strings are (StrLess).            *)
(***************************************************************************)
EXTENDS Integers, Sequences, FiniteSets, Bags, TLC

VARIABLES
    mediawiki_history,    \* bag of event rows of wmf.mediawiki_history
    users_table,          \* rows of nettrom_growth.addalink_exp_users
    pc,                   \* position of the notebook's execution
    params,               \* the values substituted into edit_data_query
    all_users_edit_data,  \* the data frame spark.run returned
    file,                 \* datasets/add-a-link-edit-data.tsv
    exception             \* the exception that reached the caller, if any

vars == <<mediawiki_history, users_table, pc, params, all_users_edit_data,
          file, exception>>

(***************************** bounds **************************************)
\* Number of event rows put into mediawiki_history.
MaxEdits == 2

(************************* nullable values *********************************)
NULL == <<>>
V(x) == <<x>>

And3(a, b) ==
    IF a = V(FALSE) \/ b = V(FALSE) THEN V(FALSE)
    ELSE IF a = NULL \/ b = NULL THEN NULL
    ELSE V(TRUE)

Not3(a) == IF a = NULL THEN NULL ELSE V(~a[1])

Eq3(a, b) == IF a = NULL \/ b = NULL THEN NULL ELSE V(a[1] = b[1])

Lt3(a, b) == IF a = NULL \/ b = NULL THEN NULL ELSE V(a[1] < b[1])

Ge3(a, b) == IF a = NULL \/ b = NULL THEN NULL ELSE V(a[1] >= b[1])

Le3(a, b) == IF a = NULL \/ b = NULL THEN NULL ELSE V(a[1] =< b[1])

Sub3(a, b) == IF a = NULL \/ b = NULL THEN NULL ELSE V(a[1] - b[1])

\* x IN (list), for a list without NULLs
In3(x, list) == IF x = NULL THEN NULL ELSE V(x[1] \in list)

\* x BETWEEN lo AND hi  is  x >= lo AND x <= hi
Between3(x, lo, hi) == And3(Ge3(x, V(lo)), Le3(x, V(hi)))

\* IF(cond, a, b): a when cond is true, b when it is false or NULL
If3(cond, a, b) == IF cond = V(TRUE) THEN a ELSE b

\* COALESCE without its default.
COALESCE_mut(a, d) == a

COALESCE(a, d) == IF a # NULL THEN a ELSE d

\* Order of two strings given as tuples of their zero-padded fields: a proper
\* prefix is less than the longer string.
StrLess(a, b) ==
    \E i \in 1..Len(b) :
        /\ \A j \in 1..(i - 1) : j =< Len(a) /\ a[j] = b[j]
        /\ \/ i = Len(a) + 1
           \/ i =< Len(a) /\ a[i] < b[i]

StrLt3(a, b) == IF a = NULL \/ b = NULL THEN NULL ELSE V(StrLess(a[1], b[1]))

StrGt3(a, b) == StrLt3(b, a)

SecondsPerDay == 86400

\* unix_timestamp(ts): seconds since 1970-01-01 of a timestamp string
unix_timestamp(ts) ==
    IF ts = NULL THEN NULL ELSE V(ts[1][1] * SecondsPerDay + ts[1][2])

(*************************** configuration *********************************)
\* dt.datetime(2021, 5, 27, 19, 12, 3): day 18774, 19*3600 + 12*60 + 3
exp_start_ts == <<18774, 69123>>
\* dt.datetime(2021, 10, 14, 0, 0, 0)
exp_end_ts == <<18914, 0>>

wikis == {"arwiki", "bnwiki", "cswiki", "viwiki", "fawiki", "frwiki",
          "huwiki", "plwiki", "rowiki", "ruwiki"}

mwh_snapshot == "2021-10"

canonical_user_table == "nettrom_growth.addalink_exp_users"

\* datetime.date(): the date of a datetime
date(d) == <<d[1]>>

\* date + dt.timedelta(days = n)
PlusDays(d, n) == <<d[1] + n>>

NoParams ==
    [snapshot |-> NULL, wiki_list |-> {}, start_date |-> NULL,
     end_date |-> NULL, exp_user_table |-> NULL]

FormattedParams ==
    [snapshot |-> V(mwh_snapshot),
     wiki_list |-> wikis,
     start_date |-> V(date(exp_start_ts)),
     end_date |-> V(PlusDays(date(exp_end_ts), 15)),
     exp_user_table |-> V(canonical_user_table)]

(***************************** the query ***********************************)
\* unix_timestamp(event_timestamp) - unix_timestamp(event_user_creation_timestamp)
SecondsSinceCreation(e) ==
    Sub3(unix_timestamp(e.event_timestamp),
         unix_timestamp(e.event_user_creation_timestamp))

InFirst24h(e) == Lt3(SecondsSinceCreation(e), V(SecondsPerDay))

\* The 2-week window starting at the account's creation.
InDays1to15_mut(e) == Between3(SecondsSinceCreation(e), 0, 15 * SecondsPerDay)

InDays1to15(e) ==
    Between3(SecondsSinceCreation(e), SecondsPerDay, 15 * SecondsPerDay)

IsArticleNs(e) == In3(e.page_namespace, {0, 1})

IsOtherNs(e) == Not3(In3(e.page_namespace, {0, 1}))

\* The revert predicate with the bound included.
IsReverted_mut(e) ==
    And3(Eq3(e.revision_is_identity_reverted, V(TRUE)),
         Le3(e.revision_seconds_to_identity_revert, V(60 * 60 * 48)))

\* revision_is_identity_reverted = true
\*   AND revision_seconds_to_identity_revert < 60*60*48
IsReverted(e) ==
    And3(Eq3(e.revision_is_identity_reverted, V(TRUE)),
         Lt3(e.revision_seconds_to_identity_revert, V(60 * 60 * 48)))

\* The eight conditional terms IF(..., 1, 0) that are summed per group.
article_edits_24hrs(e) ==
    If3(And3(IsArticleNs(e), InFirst24h(e)), V(1), V(0))

\* The revert term without the namespace condition.
article_reverts_24hrs_mut(e) ==
    If3(And3(IsReverted(e), InFirst24h(e)), V(1), V(0))

article_reverts_24hrs(e) ==
    If3(And3(And3(IsArticleNs(e), IsReverted(e)), InFirst24h(e)), V(1), V(0))

other_edits_24hrs(e) ==
    If3(And3(IsOtherNs(e), InFirst24h(e)), V(1), V(0))

other_reverts_24hrs(e) ==
    If3(And3(And3(IsOtherNs(e), IsReverted(e)), InFirst24h(e)), V(1), V(0))

article_edits_2w(e) ==
    If3(And3(IsArticleNs(e), InDays1to15(e)), V(1), V(0))

article_reverts_2w(e) ==
    If3(And3(And3(IsArticleNs(e), IsReverted(e)), InDays1to15(e)), V(1), V(0))

other_edits_2w(e) ==
    If3(And3(IsOtherNs(e), InDays1to15(e)), V(1), V(0))

other_reverts_2w(e) ==
    If3(And3(And3(IsOtherNs(e), IsReverted(e)), InDays1to15(e)), V(1), V(0))

\* event_timestamp > "{start_date}" AND event_timestamp < "{end_date}"
DateFilter(e, p) ==
    And3(StrGt3(e.event_timestamp, p.start_date),
         StrLt3(e.event_timestamp, p.end_date))

\* The WHERE clause of the edits CTE.
WherePred(e, p) ==
    And3(Eq3(e.snapshot, p.snapshot),
    And3(Eq3(e.event_entity, V("revision")),
    And3(Eq3(e.event_type, V("create")),
    And3(In3(e.wiki_db, p.wiki_list),
         DateFilter(e, p)))))

\* The rows of bag B that satisfy the WHERE clause.
Where(B, p) ==
    [e \in {x \in DOMAIN B : WherePred(x, p) = V(TRUE)} |-> B[e]]

\* The rows of bag B that fall in the group of key k (GROUP BY puts the
\* rows with a NULL key column in one group).
Group(B, k) ==
    [e \in {x \in DOMAIN B : <<x.wiki_db, x.event_user_id>> = k} |-> B[e]]

RECURSIVE SumRec(_, _, _)
SumRec(S, vals, B) ==
    IF S = {} THEN NULL
    ELSE LET e == CHOOSE x \in S : TRUE
             rest == SumRec(S \ {e}, vals, B)
         IN  IF vals[e] = NULL THEN rest
             ELSE IF rest = NULL THEN V(vals[e][1] * B[e])
             ELSE V(rest[1] + vals[e][1] * B[e])

\* SUM over the rows of bag B of the term terms[e] of each row e: NULL terms
\* are skipped, and the sum of no value is NULL.
SUM(terms, B) == SumRec(DOMAIN B, terms, B)

\* WITH edits AS (SELECT ... GROUP BY wiki_db, event_user_id)
Edits(history, p) ==
    LET rows == Where(history, p)
        keys == {<<e.wiki_db, e.event_user_id>> : e \in DOMAIN rows}
    IN  {LET g == Group(rows, k)
         IN  [wiki_db |-> k[1],
              user_id |-> k[2],
              num_article_edits_24hrs |->
                  SUM([e \in DOMAIN g |-> article_edits_24hrs(e)], g),
              num_article_reverts_24hrs |->
                  SUM([e \in DOMAIN g |-> article_reverts_24hrs(e)], g),
              num_other_edits_24hrs |->
                  SUM([e \in DOMAIN g |-> other_edits_24hrs(e)], g),
              num_other_reverts_24hrs |->
                  SUM([e \in DOMAIN g |-> other_reverts_24hrs(e)], g),
              num_article_edits_2w |->
                  SUM([e \in DOMAIN g |-> article_edits_2w(e)], g),
              num_article_reverts_2w |->
                  SUM([e \in DOMAIN g |-> article_reverts_2w(e)], g),
              num_other_edits_2w |->
                  SUM([e \in DOMAIN g |-> other_edits_2w(e)], g),
              num_other_reverts_2w |->
                  SUM([e \in DOMAIN g |-> other_reverts_2w(e)], g)]
         : k \in keys}

\* WITH users AS (SELECT six columns FROM {exp_user_table})
Users(table) ==
    {[wiki_db |-> u.wiki_db, user_id |-> u.user_id,
      user_registration_timestamp |-> u.user_registration_timestamp,
      reg_on_mobile |-> u.reg_on_mobile, hp_enabled |-> u.hp_enabled,
      hp_variant |-> u.hp_variant] : u \in table}

\* The columns of edits for a users row without a match.
NullEdits ==
    [wiki_db |-> NULL, user_id |-> NULL,
     num_article_edits_24hrs |-> NULL, num_article_reverts_24hrs |-> NULL,
     num_other_edits_24hrs |-> NULL, num_other_reverts_24hrs |-> NULL,
     num_article_edits_2w |-> NULL, num_article_reverts_2w |-> NULL,
     num_other_edits_2w |-> NULL, num_other_reverts_2w |-> NULL]

\* ON users.wiki_db = edits.wiki_db AND users.user_id = edits.user_id
JoinOn(u, g) == And3(Eq3(u.wiki_db, g.wiki_db), Eq3(u.user_id, g.user_id))

\* users JOIN edits: the matching pairs only.
LeftJoin_mut(us, es) ==
    {<<u, g>> \in us \X es : JoinOn(u, g) = V(TRUE)}

\* users LEFT JOIN edits: the matching pairs, and every users row without a
\* match paired with NULL columns.
LeftJoin(us, es) ==
    {<<u, g>> \in us \X es : JoinOn(u, g) = V(TRUE)}
    \cup {<<u, NullEdits>> : u \in {x \in us : \A g \in es : JoinOn(x, g) # V(TRUE)}}

\* The names of the final SELECT list, in order.
SelectColumns ==
    <<"wiki_db", "user_id", "user_registration_timestamp", "reg_on_mobile",
      "hp_enabled", "hp_variant",
      "num_article_edits_24hrs", "num_article_reverts_24hrs",
      "num_other_edits_24hrs", "num_other_reverts_24hrs",
      "num_article_edits_2w", "num_article_reverts_2w",
      "num_other_edits_2w", "num_other_reverts_2w">>

\* The SELECT list with the key columns taken from edits.
SelectRow_mut(u, g) ==
    <<g.wiki_db, g.user_id, u.user_registration_timestamp, u.reg_on_mobile,
      u.hp_enabled, u.hp_variant,
      COALESCE(g.num_article_edits_24hrs, V(0)),
      COALESCE(g.num_article_reverts_24hrs, V(0)),
      COALESCE(g.num_other_edits_24hrs, V(0)),
      COALESCE(g.num_other_reverts_24hrs, V(0)),
      COALESCE(g.num_article_edits_2w, V(0)),
      COALESCE(g.num_article_reverts_2w, V(0)),
      COALESCE(g.num_other_edits_2w, V(0)),
      COALESCE(g.num_other_reverts_2w, V(0))>>

\* The values of the final SELECT list for one joined pair, in order.
SelectRow(u, g) ==
    <<u.wiki_db, u.user_id, u.user_registration_timestamp, u.reg_on_mobile,
      u.hp_enabled, u.hp_variant,
      COALESCE(g.num_article_edits_24hrs, V(0)),
      COALESCE(g.num_article_reverts_24hrs, V(0)),
      COALESCE(g.num_other_edits_24hrs, V(0)),
      COALESCE(g.num_other_reverts_24hrs, V(0)),
      COALESCE(g.num_article_edits_2w, V(0)),
      COALESCE(g.num_article_reverts_2w, V(0)),
      COALESCE(g.num_other_edits_2w, V(0)),
      COALESCE(g.num_other_reverts_2w, V(0))>>

\* The result of edit_data_query: a frame with the SELECT list's columns
\* and one row per joined pair (a bag: equal rows are kept).
QueryResult(history, table, p) ==
    LET pairs == LeftJoin(Users(table), Edits(history, p))
        rows == {SelectRow(q[1], q[2]) : q \in pairs}
    IN  [columns |-> SelectColumns,
         rows |-> [r \in rows |->
                      Cardinality({q \in pairs : SelectRow(q[1], q[2]) = r})]]

NoFrame == [columns |-> <<>>, rows |-> EmptyBag]

\* DataFrame.to_csv(filename, header, index = False, sep = '\t'): the file
\* is replaced by the header line (when asked for) and one line per row.
to_csv(frame, header) ==
    [state |-> "complete",
     header |-> IF header THEN <<frame.columns>> ELSE <<>>,
     rows |-> frame.rows]

AbsentFile == [state |-> "absent", header |-> <<>>, rows |-> EmptyBag]
\* A file left by an earlier run of the notebook.
StaleFile == [state |-> "stale", header |-> <<>>, rows |-> EmptyBag]
\* A file opened for writing whose write did not complete.
TruncatedFile == [state |-> "partial", header |-> <<>>, rows |-> EmptyBag]

(***************************** the inputs **********************************)
\* The timestamp d seconds after timestamp t.
At(t, d) ==
    LET s == t[1] * SecondsPerDay + t[2] + d
    IN  <<s \div SecondsPerDay, s % SecondsPerDay>>

\* A registration inside the experiment, between its start and its end.
MidRegistration == <<18800, 3600>>

\* Rows of the user table, keyed by (wiki_db, user_id).
CandidateUsers ==
    {[wiki_db |-> V("arwiki"), user_id |-> V(1),
      user_registration_timestamp |-> V(exp_start_ts),
      reg_on_mobile |-> V(TRUE), hp_enabled |-> V(1), hp_variant |-> V("control")],
     [wiki_db |-> V("bnwiki"), user_id |-> V(1),
      user_registration_timestamp |-> V(MidRegistration),
      reg_on_mobile |-> V(FALSE), hp_enabled |-> V(1), hp_variant |-> V("linkrecommendation")],
     [wiki_db |-> V("arwiki"), user_id |-> V(2),
      user_registration_timestamp |-> V(exp_end_ts),
      reg_on_mobile |-> V(FALSE), hp_enabled |-> V(0), hp_variant |-> NULL]}

\* A revision-create event row of the queried snapshot.
Ev(wiki, uid, ns, reverted, secs, ts, created) ==
    [snapshot |-> V(mwh_snapshot), event_entity |-> V("revision"),
     event_type |-> V("create"), wiki_db |-> V(wiki), event_user_id |-> uid,
     page_namespace |-> ns, revision_is_identity_reverted |-> reverted,
     revision_seconds_to_identity_revert |-> secs,
     event_timestamp |-> ts, event_user_creation_timestamp |-> created]

\* An unreverted edit to namespace 0 by user 1 of arwiki, d seconds after
\* the account was created at the start of the experiment.
Plain(d) ==
    Ev("arwiki", V(1), V(0), V(FALSE), NULL, V(At(exp_start_ts, d)), V(exp_start_ts))

\* Namespace class x window x reverted or not.
CoreEvents ==
    {Ev("arwiki", V(1), ns, r[1], r[2], V(At(exp_start_ts, d)), V(exp_start_ts)) :
        ns \in {V(0), V(2), NULL},
        r \in {<<V(TRUE), V(60 * 60 * 48 - 1)>>, <<V(FALSE), NULL>>},
        d \in {0, SecondsPerDay}}

\* The edges of the two windows, and an unknown creation time.
WindowEvents ==
    {Plain(d) : d \in {-1, SecondsPerDay - 1, 15 * SecondsPerDay, 15 * SecondsPerDay + 1}}
    \cup {Ev("arwiki", V(1), V(0), V(FALSE), NULL, V(exp_start_ts), NULL)}

\* The edge of the revert predicate, unknown revert data, and namespace 1.
RevertEvents ==
    {Ev("arwiki", V(1), V(0), r[1], r[2], V(exp_start_ts), V(exp_start_ts)) :
        r \in {<<V(TRUE), V(60 * 60 * 48)>>, <<V(TRUE), NULL>>, <<NULL, NULL>>}}
    \cup {Ev("arwiki", V(1), V(1), V(TRUE), V(0), V(exp_start_ts), V(exp_start_ts))}

\* Rows that fail one condition of the WHERE clause.
FilteredEvents ==
    {[Plain(0) EXCEPT !.snapshot = V("2021-09")],
     [Plain(0) EXCEPT !.event_entity = V("page")],
     [Plain(0) EXCEPT !.event_type = V("delete")],
     [Plain(0) EXCEPT !.wiki_db = V("enwiki")],
     [Plain(0) EXCEPT !.event_timestamp = NULL],
     Plain(-(exp_start_ts[2] + 1)),
     Plain(200 * SecondsPerDay)}

\* Edits of the other users, of an anonymous user, and of the user
\* registered at the end of the experiment, 15 days after registration.
OtherUserEvents ==
    {Ev("bnwiki", V(1), V(0), V(FALSE), NULL, V(At(MidRegistration, 60)), V(MidRegistration)),
     Ev("arwiki", NULL, V(0), V(FALSE), NULL, V(At(MidRegistration, 60)), NULL),
     Ev("arwiki", V(2), V(2), V(TRUE), V(10), V(At(exp_end_ts, 15 * SecondsPerDay - 1)), V(exp_end_ts)),
     Ev("arwiki", V(2), V(0), V(FALSE), NULL, V(At(exp_end_ts, 15 * SecondsPerDay)), V(exp_end_ts))}

Events ==
    CoreEvents \cup WindowEvents \cup RevertEvents \cup FilteredEvents
    \cup OtherUserEvents

(***************************** the notebook ********************************)
Init ==
    /\ mediawiki_history = EmptyBag
    /\ users_table \in SUBSET CandidateUsers
    /\ pc = "config"
    /\ params = NoParams
    /\ all_users_edit_data = NoFrame
    /\ file \in {AbsentFile, StaleFile}
    /\ exception = "none"

\* A row of the snapshot, present before the notebook is run.
AddEvent ==
    /\ pc = "config"
    /\ BagCardinality(mediawiki_history) < MaxEdits
    /\ \E e \in Events :
          mediawiki_history' = mediawiki_history (+) SetToBag({e})
    /\ UNCHANGED <<users_table, pc, params, all_users_edit_data, file, exception>>

\* edit_data_query.format(...)
FormatQuery ==
    /\ pc = "config"
    /\ pc' = "formatted"
    /\ params' = FormattedParams
    /\ UNCHANGED <<mediawiki_history, users_table, all_users_edit_data, file, exception>>

\* spark.run(...) returns the complete result.
RunQuery ==
    /\ pc = "formatted"
    /\ pc' = "ran"
    /\ all_users_edit_data' = QueryResult(mediawiki_history, users_table, params)
    /\ UNCHANGED <<mediawiki_history, users_table, params, file, exception>>

\* A failure of spark.run that is caught: the notebook goes on.
RunQueryFails_mut ==
    /\ pc = "formatted"
    /\ pc' = "ran"
    /\ exception' = "query"
    /\ UNCHANGED <<mediawiki_history, users_table, params, all_users_edit_data, file>>

\* spark.run(...) raises (query error, missing table): nothing is assigned
\* and the exception reaches the caller.
RunQueryFails ==
    /\ pc = "formatted"
    /\ pc' = "failed"
    /\ exception' = "query"
    /\ UNCHANGED <<mediawiki_history, users_table, params, all_users_edit_data, file>>

\* all_users_edit_data.to_csv(edit_data_output_filename, header = True, ...)
WriteFile ==
    /\ pc = "ran"
    /\ pc' = "written"
    /\ file' = to_csv(all_users_edit_data, TRUE)
    /\ UNCHANGED <<mediawiki_history, users_table, params, all_users_edit_data, exception>>

\* to_csv raises (I/O error): the file is untouched or left incomplete.
WriteFileFails ==
    /\ pc = "ran"
    /\ pc' = "failed"
    /\ exception' = "io"
    /\ file' \in {file, TruncatedFile}
    /\ UNCHANGED <<mediawiki_history, users_table, params, all_users_edit_data>>

Next ==
    \/ AddEvent
    \/ FormatQuery
    \/ RunQuery
    \/ RunQueryFails
    \/ WriteFile
    \/ WriteFileFails

Spec == Init /\ [][Next]_vars

(***************************** properties **********************************)
\* The query has returned: all_users_edit_data holds its result.
HasResult == all_users_edit_data # NoFrame

\* The position of each column of the query's result.
ColumnIndex ==
    [name \in {SelectColumns[i] : i \in 1..Len(SelectColumns)} |->
        CHOOSE i \in 1..Len(SelectColumns) : SelectColumns[i] = name]

\* The value of the named column in a row of the result.
Col(r, name) == r[ColumnIndex[name]]

\* The rows of the result that carry the key of user-table row u.
RowsOf(u) ==
    [r \in {x \in DOMAIN all_users_edit_data.rows :
               Col(x, "wiki_db") = u.wiki_db /\ Col(x, "user_id") = u.user_id}
        |-> all_users_edit_data.rows[r]]

\* The event rows of user-table row u that pass the WHERE clause.
EditsOf(u) ==
    [e \in {x \in DOMAIN mediawiki_history :
               /\ x.wiki_db = u.wiki_db
               /\ x.event_user_id = u.user_id
               /\ WherePred(x, FormattedParams) = V(TRUE)}
        |-> mediawiki_history[e]]

\* How many rows of bag B are among the rows S.
Count(S, B) == BagCardinality([e \in S \cap DOMAIN B |-> B[e]])

CounterColumns ==
    {"num_article_edits_24hrs", "num_article_reverts_24hrs",
     "num_other_edits_24hrs", "num_other_reverts_24hrs",
     "num_article_edits_2w", "num_article_reverts_2w",
     "num_other_edits_2w", "num_other_reverts_2w"}

\* The term the query sums into the named counter.
Term(name, e) ==
    CASE name = "num_article_edits_24hrs" -> article_edits_24hrs(e)
      [] name = "num_article_reverts_24hrs" -> article_reverts_24hrs(e)
      [] name = "num_other_edits_24hrs" -> other_edits_24hrs(e)
      [] name = "num_other_reverts_24hrs" -> other_reverts_24hrs(e)
      [] name = "num_article_edits_2w" -> article_edits_2w(e)
      [] name = "num_article_reverts_2w" -> article_reverts_2w(e)
      [] name = "num_other_edits_2w" -> other_edits_2w(e)
      [] name = "num_other_reverts_2w" -> other_reverts_2w(e)

\* Seconds from account creation to the edit, for an event with both times.
Elapsed(e) ==
    (e.event_timestamp[1][1] - e.event_user_creation_timestamp[1][1]) * SecondsPerDay
    + e.event_timestamp[1][2] - e.event_user_creation_timestamp[1][2]

HasTimes(e) == e.event_timestamp # NULL /\ e.event_user_creation_timestamp # NULL

\* C1: every row of the user table has exactly one row in the query's
\* result, whatever number of edit events the user has, and the result has
\* no other rows.
C1_OneRowPerUser ==
    HasResult =>
        /\ \A u \in users_table : BagCardinality(RowsOf(u)) = 1
        /\ BagCardinality(all_users_edit_data.rows) = Cardinality(users_table)

\* A result for a user table where one user has two or more edit events
\* that pass the filters and another has no event row at all.
C1_Witness ==
    /\ HasResult
    /\ \E u \in users_table : BagCardinality(EditsOf(u)) >= 2
    /\ \E u \in users_table :
          \A e \in DOMAIN mediawiki_history :
              e.wiki_db # u.wiki_db \/ e.event_user_id # u.user_id

\* C2: in every row of the result each of the eight counters is a
\* non-negative integer and never NULL, and a user none of whose filtered
\* edits satisfies a counter's predicate has a row, with that counter
\* equal to 0.
C2_CountersNonNegative ==
    HasResult =>
        \A u \in users_table :
            LET edits == EditsOf(u)
            IN  /\ RowsOf(u) # EmptyBag
                /\ \A r \in DOMAIN RowsOf(u) : \A c \in CounterColumns :
                    LET n == Col(r, c)
                    IN  /\ n # NULL
                        /\ n[1] \in Nat
                        /\ (\A e \in DOMAIN edits : Term(c, e) # V(1))
                               => n = V(0)

\* A result with a user whose only event rows are dropped by the filters,
\* whose counters are all 0, and a user with a counted edit.
C2_Witness ==
    /\ HasResult
    /\ \E u \in users_table :
          /\ \E e \in DOMAIN mediawiki_history :
                e.wiki_db = u.wiki_db /\ e.event_user_id = u.user_id
          /\ EditsOf(u) = EmptyBag
          /\ \A r \in DOMAIN RowsOf(u) : \A c \in CounterColumns : Col(r, c) = V(0)
    /\ \E u \in users_table : \E r \in DOMAIN RowsOf(u) :
          Col(r, "num_article_edits_24hrs")[1] >= 1

\* C3: no edit satisfies both window predicates, at any distance from the
\* account's creation (86399, 86400 and 15*86400 seconds included), so no
\* edit is added to both a 24-hour counter and a 2-week counter: the four
\* edit counters of a row add up to at most the user's filtered edits.
C3_WindowsDisjoint ==
    HasResult =>
        /\ \A e \in DOMAIN mediawiki_history :
              /\ ~(InFirst24h(e) = V(TRUE) /\ InDays1to15(e) = V(TRUE))
              /\ ~( /\ V(1) \in {article_edits_24hrs(e), other_edits_24hrs(e)}
                    /\ V(1) \in {article_edits_2w(e), other_edits_2w(e)} )
        /\ \A u \in users_table :
              LET edits == BagCardinality(EditsOf(u))
              IN  \A r \in DOMAIN RowsOf(u) :
                      Col(r, "num_article_edits_24hrs")[1]
                      + Col(r, "num_other_edits_24hrs")[1]
                      + Col(r, "num_article_edits_2w")[1]
                      + Col(r, "num_other_edits_2w")[1] =< edits

\* A result counting an edit made 86399 seconds after creation in the
\* 24-hour window and one made exactly 86400 seconds after it in the 2-week
\* window.
C3_Witness ==
    /\ HasResult
    /\ \E u \in users_table :
          /\ \E e \in DOMAIN EditsOf(u) : HasTimes(e) /\ Elapsed(e) = SecondsPerDay - 1
          /\ \E e \in DOMAIN EditsOf(u) : HasTimes(e) /\ Elapsed(e) = SecondsPerDay
          /\ \E r \in DOMAIN RowsOf(u) :
                /\ Col(r, "num_article_edits_24hrs") = V(1)
                /\ Col(r, "num_article_edits_2w") = V(1)

\* The edit counter and the revert counter of each namespace class and window.
CounterPairs ==
    {<<"num_article_edits_24hrs", "num_article_reverts_24hrs">>,
     <<"num_other_edits_24hrs", "num_other_reverts_24hrs">>,
     <<"num_article_edits_2w", "num_article_reverts_2w">>,
     <<"num_other_edits_2w", "num_other_reverts_2w">>}

Edits24h(r) ==
    Col(r, "num_article_edits_24hrs")[1] + Col(r, "num_other_edits_24hrs")[1]

Edits2w(r) ==
    Col(r, "num_article_edits_2w")[1] + Col(r, "num_other_edits_2w")[1]

\* C4: a filtered edit is counted in a 24-hour counter exactly when it was
\* made from 0 to 86399 seconds after registration, and in a 2-week counter
\* exactly when it was made from 86400 to 15*86400 seconds after it; an
\* edit made before registration is counted nowhere.  Stated for the users
\* all of whose filtered edits have a namespace and both timestamps.
C4_WindowsFromRegistration ==
    HasResult =>
        \A u \in users_table : \A r \in DOMAIN RowsOf(u) :
            (\A e \in DOMAIN EditsOf(u) : e.page_namespace # NULL /\ HasTimes(e)) =>
                /\ Edits24h(r) =
                      Count({e \in DOMAIN EditsOf(u) :
                                0 =< Elapsed(e) /\ Elapsed(e) < SecondsPerDay},
                            EditsOf(u))
                /\ Edits2w(r) =
                      Count({e \in DOMAIN EditsOf(u) :
                                /\ SecondsPerDay =< Elapsed(e)
                                /\ Elapsed(e) =< 15 * SecondsPerDay},
                            EditsOf(u))

\* C5: for every user of the user table registered from exp_start_ts to
\* exp_end_ts, every edit made from 0 to 15*86400 seconds after the
\* registration passes the date filter of the formatted query.
C5_SameTimeToEdit ==
    pc # "config" =>
        \A u \in users_table : \A e \in DOMAIN mediawiki_history :
            ( /\ e.wiki_db = u.wiki_db
              /\ e.event_user_id = u.user_id
              /\ HasTimes(e)
              /\ e.event_user_creation_timestamp = u.user_registration_timestamp
              /\ ~StrLess(u.user_registration_timestamp[1], exp_start_ts)
              /\ ~StrLess(exp_end_ts, u.user_registration_timestamp[1])
              /\ 0 =< Elapsed(e)
              /\ Elapsed(e) =< 15 * SecondsPerDay )
            => DateFilter(e, params) = V(TRUE)

\* C6: for every user and each window, the article counter and the other
\* counter add up to the number of the user's filtered edits in that
\* window, whatever page_namespace holds (NULL included).
C6_NamespaceClassesCover ==
    HasResult =>
        \A u \in users_table : \A r \in DOMAIN RowsOf(u) :
            /\ Edits24h(r) =
                  Count({e \in DOMAIN EditsOf(u) : InFirst24h(e) = V(TRUE)}, EditsOf(u))
            /\ Edits2w(r) =
                  Count({e \in DOMAIN EditsOf(u) : InDays1to15(e) = V(TRUE)}, EditsOf(u))

\* An identity revert within 48 hours, as the claim words it.
RevertedWithin48h(e) ==
    /\ e.revision_is_identity_reverted = V(TRUE)
    /\ e.revision_seconds_to_identity_revert # NULL
    /\ e.revision_seconds_to_identity_revert[1] < 60 * 60 * 48

\* C7: each revert counter is the number of the edits counted in the edit
\* counter of the same namespace class and window that are identity
\* reverted in less than 172800 seconds; an edit reverted at 172800 seconds
\* or later, never reverted or with an unknown time to revert adds nothing.
C7_RevertWithin48h ==
    HasResult =>
        \A u \in users_table :
            LET edits == EditsOf(u)
            IN  \A r \in DOMAIN RowsOf(u) : \A cp \in CounterPairs :
                    Col(r, cp[2]) =
                        V(Count({e \in DOMAIN edits :
                                    Term(cp[1], e) = V(1) /\ RevertedWithin48h(e)},
                                edits))

\* A result for a user with one edit reverted after 172799 seconds and one
\* reverted after exactly 172800 seconds, both in the first 24 hours.
C7_Witness ==
    /\ HasResult
    /\ \E u \in users_table :
          /\ \E e \in DOMAIN EditsOf(u) :
                /\ e.revision_is_identity_reverted = V(TRUE)
                /\ e.revision_seconds_to_identity_revert = V(60 * 60 * 48)
          /\ \E r \in DOMAIN RowsOf(u) :
                /\ Col(r, "num_article_edits_24hrs") = V(2)
                /\ Col(r, "num_article_reverts_24hrs") = V(1)

\* C8: the steps run once and in order; a failure of the query reaches the
\* caller and leaves the file as it was; the file changes only in the step
\* after the query returned its complete result, and nothing runs after the
\* write or after a failure.
C8_FailurePropagates ==
    [][ /\ <<pc, pc'>> \in {<<"config", "config">>, <<"config", "formatted">>,
                            <<"formatted", "ran">>, <<"formatted", "failed">>,
                            <<"ran", "written">>, <<"ran", "failed">>}
        /\ exception' = "query" => pc' = "failed" /\ file' = file
        /\ exception # "none" => FALSE
        /\ file' # file =>
              /\ pc = "ran"
              /\ exception = "none"
              /\ all_users_edit_data =
                    QueryResult(mediawiki_history, users_table, FormattedParams)
      ]_vars

\* The query failed over a non-empty history while a file of an earlier run
\* exists: the exception is the caller's and the file is that earlier file.
C8_Witness ==
    /\ pc = "failed"
    /\ exception = "query"
    /\ file = StaleFile
    /\ users_table # {}
    /\ mediawiki_history # EmptyBag

\* C9: the written file has one header row, naming the six attributes and
\* the eight counters in this order, and the six attributes of each row are
\* those of a row of the user table.
C9_ColumnsAndAttributes ==
    pc = "written" =>
        /\ file.state = "complete"
        /\ file.header =
              << <<"wiki_db", "user_id", "user_registration_timestamp",
                   "reg_on_mobile", "hp_enabled", "hp_variant",
                   "num_article_edits_24hrs", "num_article_reverts_24hrs",
                   "num_other_edits_24hrs", "num_other_reverts_24hrs",
                   "num_article_edits_2w", "num_article_reverts_2w",
                   "num_other_edits_2w", "num_other_reverts_2w">> >>
        /\ \A r \in DOMAIN file.rows :
              /\ Len(r) = 14
              /\ \E u \in users_table :
                    <<r[1], r[2], r[3], r[4], r[5], r[6]>> =
                        <<u.wiki_db, u.user_id, u.user_registration_timestamp,
                          u.reg_on_mobile, u.hp_enabled, u.hp_variant>>

\* A written file with the row of a user who has counted edits and the row
\* of a user who has none.
C9_Witness ==
    /\ pc = "written"
    /\ \E r \in DOMAIN file.rows : r[7][1] + r[9][1] + r[11][1] + r[13][1] >= 1
    /\ \E r \in DOMAIN file.rows : \A i \in 7..14 : r[i] = V(0)

\* C10: in every row each revert counter is at most the edit counter of the
\* same namespace class and window.
C10_RevertsAtMostEdits ==
    HasResult =>
        \A u \in users_table : \A r \in DOMAIN RowsOf(u) : \A cp \in CounterPairs :
            Col(r, cp[2])[1] =< Col(r, cp[1])[1]

\* A result for a user with two edits to another namespace in days 1-15,
\* one of them reverted, and for a user with a reverted edit as only edit.
C10_Witness ==
    /\ HasResult
    /\ \E u \in users_table : \E r \in DOMAIN RowsOf(u) :
          /\ Col(r, "num_other_edits_2w") = V(2)
          /\ Col(r, "num_other_reverts_2w") = V(1)

====
